---- MODULE Spec2Model ----
(***************************************************************************)
(* Gestr: the session store and stability filter of server.js and the      *)
(* worker channel of letterClassifier.js (src/unnamed/part_000).           *)
(*                                                                         *)
(* JavaScript values that cross the worker protocol are records            *)
(* [type, chars, n]: a string is its sequence of one-character strings, a  *)
(* confidence is a number of hundredths (0.7 is 70).                       *)
(***************************************************************************)
EXTENDS Integers, Sequences, FiniteSets, TLC

VARIABLES
  letterSessions,   \* server.js:30   Map sessionId -> {letters, recentPredictions, updatedAt}
  sends,            \* send-to-gemini requests suspended at the provider call (server.js:193)
  pythonProcess,    \* part_000:215   handle of the current worker (0 is null)
  stdoutInterface,  \* part_000:216   readline interface of the current worker (0 is null)
  requestCounter,   \* part_000:217
  pendingRequests,  \* part_000:218   Map requestId -> {resolve, reject, timeout}
  timers,           \* armed setTimeout handles: handle -> [id, deadline]
  procs,            \* every child process spawned so far, in spawn order
  calls,            \* every promise returned by classifyLetterFromBase64, in call order
  host,             \* "up", or "crashed" after an uncaught exception
  now,              \* Date.now(), in milliseconds since the server started
  mon,              \* per session: what has been fed to it since it was created
  last              \* the response that the latest step sent, if it sent one

storeVars == <<letterSessions, sends, mon>>
chanVars == <<pythonProcess, stdoutInterface, requestCounter, pendingRequests,
              timers, procs, calls, host, now>>
vars == <<storeVars, chanVars, last>>

----------------------------------------------------------------------------
(* Program constants *)

MIN_CONFIDENCE == 70
STABILITY_COUNT == 3
REQUEST_TIMEOUT_MS == 12000

(* Bounds of the model *)

MaxFed == 6          \* frames fed to one session between its creation and its deletion
MaxSends == 1        \* send-to-gemini requests suspended at the same time
MaxCalls == 2        \* calls of classifyLetterFromBase64
MaxProcs == 2        \* worker processes spawned
MaxTicks == 1        \* clock ticks

SessionIds == {"default"}

----------------------------------------------------------------------------
(* JavaScript values *)

JSStr(cs) == [type |-> "string", chars |-> cs, n |-> 0]
JSNum(k) == [type |-> "number", chars |-> <<>>, n |-> k]
JSNull == [type |-> "null", chars |-> <<>>, n |-> 0]
JSUndefined == [type |-> "undefined", chars |-> <<>>, n |-> 0]

\* a < b for a JavaScript value a and a number b: null converts to 0,
\* undefined to NaN, and every comparison with NaN is false.
JSLess(a, b) ==
  CASE a.type = "number" -> a.n < b
    [] a.type = "null" -> 0 < b
    [] OTHER -> FALSE

UpperCaseChars ==
  <<"A", "B", "C", "D", "E", "F", "G", "H", "I", "J", "K", "L", "M",
    "N", "O", "P", "Q", "R", "S", "T", "U", "V", "W", "X", "Y", "Z">>
LowerCaseChars ==
  <<"a", "b", "c", "d", "e", "f", "g", "h", "i", "j", "k", "l", "m",
    "n", "o", "p", "q", "r", "s", "t", "u", "v", "w", "x", "y", "z">>
WhiteSpaceChars == {" ", "\t", "\n"}

\* String.prototype.toUpperCase, one character
CharToUpperCase(c) ==
  IF \E i \in 1..26 : LowerCaseChars[i] = c
  THEN UpperCaseChars[CHOOSE i \in 1..26 : LowerCaseChars[i] = c]
  ELSE c

ToUpperCase(cs) == [i \in 1..Len(cs) |-> CharToUpperCase(cs[i])]

RECURSIVE TrimStart(_)
TrimStart(cs) ==
  IF cs # <<>> /\ Head(cs) \in WhiteSpaceChars THEN TrimStart(Tail(cs)) ELSE cs

RECURSIVE TrimEnd(_)
TrimEnd(cs) ==
  IF cs # <<>> /\ cs[Len(cs)] \in WhiteSpaceChars
  THEN TrimEnd(SubSeq(cs, 1, Len(cs) - 1))
  ELSE cs

\* String.prototype.trim
Trim(cs) == TrimEnd(TrimStart(cs))

----------------------------------------------------------------------------
(* server.js: the stability filter *)

NoLetter == "null"            \* normalizeLetter's null
NoLastLetter == "undefined"   \* letters[letters.length - 1] of an empty array

normalizeLetter(letter) ==
  IF letter.type # "string" \/ letter.chars = <<>>
  THEN NoLetter
  ELSE LET upper == ToUpperCase(Trim(letter.chars))
       IN IF Len(upper) = 1 /\ \E i \in 1..26 : UpperCaseChars[i] = upper[1]
          THEN upper[1]
          ELSE NoLetter

NewSession == [letters |-> <<>>, recentPredictions |-> <<>>, updatedAt |-> now]

\* letterSessions after the has/set of server.js:50-56
WithSession(sessionId) ==
  IF sessionId \in DOMAIN letterSessions
  THEN letterSessions
  ELSE letterSessions @@ (sessionId :> NewSession)

PushPrediction_NoShift(recent, cleanLetter) == Append(recent, cleanLetter)
\* recentPredictions after the push and the shift of server.js:84-87
PushPrediction(recent, cleanLetter) ==
  LET pushed == Append(recent, cleanLetter)
  IN IF Len(pushed) > STABILITY_COUNT THEN Tail(pushed) ELSE pushed

\* server.js:90
Insufficient_OffByOne(recent) == Len(recent) < STABILITY_COUNT - 1
Insufficient(recent) == Len(recent) < STABILITY_COUNT

\* server.js:103
AllSame_EndsOnly(recent, cleanLetter) ==
  recent[1] = cleanLetter /\ recent[Len(recent)] = cleanLetter
AllSame(recent, cleanLetter) == \A i \in 1..Len(recent) : recent[i] = cleanLetter

LastLetter(letters) ==
  IF letters = <<>> THEN NoLastLetter ELSE letters[Len(letters)]

Commit_NoDuplicateCheck(session, cleanLetter) ==
  [letters |-> Append(session.letters, cleanLetter),
   recentPredictions |-> <<>>,
   updatedAt |-> now]
Commit_Replaces(session, cleanLetter) ==
  IF LastLetter(session.letters) # cleanLetter
  THEN [letters |-> <<cleanLetter>>,
        recentPredictions |-> <<>>,
        updatedAt |-> now]
  ELSE session
\* server.js:115-122, on the session whose window is full and uniform
Commit(session, cleanLetter) ==
  IF LastLetter(session.letters) # cleanLetter
  THEN [letters |-> Append(session.letters, cleanLetter),
        recentPredictions |-> <<>>,
        updatedAt |-> now]
  ELSE session

\* server.js:62
LowConfidence_WrongThreshold(confidence) == JSLess(confidence, MIN_CONFIDENCE - 1)
LowConfidence(confidence) == JSLess(confidence, MIN_CONFIDENCE)

GateRejected_ResetsWindow(session, cleanLetter) ==
  [session EXCEPT !.recentPredictions = <<>>]
\* the session as the returns of server.js:62-81 leave it: they come before the
\* push of line 84
GateRejected(session, cleanLetter) == session

\* the object that a duplicate would get if the return sat inside the if of
\* server.js:117: session is the session after lines 115-122, whose window is
\* empty exactly when the letter was appended
AcceptedResult_OnlyOnAppend(sessionId, session, cleanLetter) ==
  IF session.recentPredictions = <<>>
  THEN [sessionId |-> sessionId, letters |-> session.letters,
        accepted |-> TRUE, reason |-> "none",
        acceptedLetter |-> cleanLetter, stabilityProgress |-> 0]
  ELSE [sessionId |-> sessionId, letters |-> session.letters,
        accepted |-> FALSE, reason |-> "duplicate",
        acceptedLetter |-> NoLetter, stabilityProgress |-> 0]
\* the return of server.js:124-130
AcceptedResult(sessionId, session, cleanLetter) ==
  [sessionId |-> sessionId, letters |-> session.letters,
   accepted |-> TRUE, reason |-> "none",
   acceptedLetter |-> cleanLetter, stabilityProgress |-> 0]

\* accumulateLetter: the session it leaves in the store and the object it returns
accumulateLetter(letter, confidence, sessionId) ==
  LET session == WithSession(sessionId)[sessionId]
      cleanLetter == normalizeLetter(letter)
      recent == PushPrediction(session.recentPredictions, cleanLetter)
      rejected(s, why, progress) ==
        [session |-> s,
         result |-> [sessionId |-> sessionId, letters |-> s.letters,
                     accepted |-> FALSE, reason |-> why,
                     acceptedLetter |-> NoLetter, stabilityProgress |-> progress]]
  IN IF LowConfidence(confidence)
       THEN rejected(GateRejected(session, cleanLetter), "low_confidence", 0)
     ELSE IF cleanLetter = NoLetter
       THEN rejected(GateRejected(session, cleanLetter), "invalid_letter", 0)
     ELSE IF Insufficient(recent)
       THEN rejected([session EXCEPT !.recentPredictions = recent],
                     "insufficient_stability", Len(recent))
     ELSE IF ~AllSame(recent, cleanLetter)
       THEN rejected([session EXCEPT !.recentPredictions = recent], "unstable", 0)
     ELSE LET committed == Commit([session EXCEPT !.recentPredictions = recent],
                                  cleanLetter)
          IN [session |-> committed,
              result |-> AcceptedResult(sessionId, committed, cleanLetter)]

----------------------------------------------------------------------------
(* What has been fed to a session since it was created.  The monitor reads *)
(* the frames only; the program never reads it.                            *)

\* the frame passes the confidence gate and the validity gate as spec.md 4.2 states them
Qualifies(letter, confidence) ==
  /\ confidence.type = "number"
  /\ confidence.n >= MIN_CONFIDENCE
  /\ normalizeLetter(letter) # NoLetter

\* the frame is rejected at the confidence gate or at the validity gate
\* (server.js:62, 73)
GateRejects(letter, confidence) ==
  LowConfidence(confidence) \/ normalizeLetter(letter) = NoLetter

NewMonitor ==
  [fed |-> 0,              \* frames fed
   passAll |-> TRUE,       \* every frame fed qualified
   oneSymbol |-> TRUE,     \* every frame fed qualified and carried the same symbol
   runLetter |-> NoLetter, \* the symbol of the latest frame, if it qualified
   run |-> 0,              \* length of the run of that symbol that ends at the latest
                           \* frame, counted up to STABILITY_COUNT
   hit |-> FALSE,          \* some run has reached STABILITY_COUNT
   rawLetter |-> NoLetter, \* the symbol of the latest frame, whatever its confidence
   rawRun |-> 0,           \* length of the run of frames with that symbol that ends
                           \* at the latest frame, counted up to STABILITY_COUNT
   passLetter |-> NoLetter, \* the symbol of the latest frame that no gate rejected
   passRun |-> 0]          \* length of the run of that symbol among the frames that
                           \* no gate rejected, counted up to STABILITY_COUNT

MonitorFrame(m, letter, confidence) ==
  LET q == Qualifies(letter, confidence)
      sym == normalizeLetter(letter)
      run == IF q /\ sym = m.runLetter
             THEN (IF m.run < STABILITY_COUNT THEN m.run + 1 ELSE m.run)
             ELSE IF q THEN 1 ELSE 0
      next(n) == IF n < STABILITY_COUNT THEN n + 1 ELSE n
      rawRun == IF sym = NoLetter THEN 0
                ELSE IF sym = m.rawLetter THEN next(m.rawRun) ELSE 1
      passes == ~GateRejects(letter, confidence)
      passRun == IF ~passes THEN m.passRun
                 ELSE IF sym = m.passLetter THEN next(m.passRun) ELSE 1
  IN [fed |-> m.fed + 1,
      passAll |-> m.passAll /\ q,
      oneSymbol |-> m.oneSymbol /\ q /\ (m.fed = 0 \/ sym = m.runLetter),
      runLetter |-> IF q THEN sym ELSE NoLetter,
      run |-> run,
      hit |-> m.hit \/ run >= STABILITY_COUNT,
      rawLetter |-> sym,
      rawRun |-> rawRun,
      passLetter |-> IF passes THEN sym ELSE m.passLetter,
      passRun |-> passRun]

MonitorOf(sessionId) ==
  IF sessionId \in DOMAIN mon THEN mon[sessionId] ELSE NewMonitor

Without(f, k) == [x \in DOMAIN f \ {k} |-> f[x]]

----------------------------------------------------------------------------
(* server.js: the handlers of the session store *)

FrameLetters ==
  {JSStr(<<"A">>), JSStr(<<" ", "a">>), JSStr(<<"b">>), JSStr(<<"A", "B">>), JSUndefined}
FrameConfidences == {JSNum(69), JSNum(70), JSUndefined}
SendTexts == {JSUndefined, JSStr(<<" ">>), JSStr(<<"H", "I">>)}

\* POST /api/classify-letter from the return of the await on (server.js:144-161)
Accumulate(sessionId, letter, confidence) ==
  LET acc == accumulateLetter(letter, confidence, sessionId)
  IN /\ letterSessions' = [WithSession(sessionId) EXCEPT ![sessionId] = acc.session]
     /\ mon' = (sessionId :> MonitorFrame(MonitorOf(sessionId), letter, confidence))
                  @@ mon

\* res.json of server.js:150-161
ClassifyResponse(sessionId, letter, confidence) ==
  LET result == accumulateLetter(letter, confidence, sessionId).result
  IN [op |-> "classify", status |-> 200,
      letter |-> letter, confidence |-> confidence,
      sessionId |-> result.sessionId,
      letters |-> result.letters,
      accepted |-> result.accepted,
      acceptedLetter |-> result.acceptedLetter,
      reason |-> result.reason,
      stabilityProgress |-> result.stabilityProgress]

\* a step that sends no response
Quiet == [op |-> "none"]

\* a step that drops a line whose id is the id of a request that is no longer
\* pending (part_000:247-249)
Discarded == [op |-> "discard"]

\* the catch of server.js:162-168
ErrorResponse(message) == [op |-> "classify", status |-> 500]

\* a frame whose classification the worker has answered
Frame(sessionId, letter, confidence) ==
  /\ host = "up"
  /\ MonitorOf(sessionId).fed < MaxFed
  /\ Accumulate(sessionId, letter, confidence)
  /\ last' = ClassifyResponse(sessionId, letter, confidence)
  /\ UNCHANGED <<sends, chanVars>>

\* res.json of server.js:313; existed tells whether there was a session to delete
Cleared(sessionId) ==
  [op |-> "clear", status |-> 200, sessionId |-> sessionId,
   existed |-> sessionId \in DOMAIN letterSessions]

ClearSession_LettersOnly(sessionId) ==
  /\ host = "up"
  /\ letterSessions' = IF sessionId \in DOMAIN letterSessions
                        THEN [letterSessions EXCEPT ![sessionId].letters = <<>>]
                        ELSE letterSessions
  /\ mon' = Without(mon, sessionId)
  /\ last' = Cleared(sessionId)
  /\ UNCHANGED <<sends, chanVars>>
\* POST /api/clear-session (server.js:306-314)
ClearSession(sessionId) ==
  /\ host = "up"
  /\ letterSessions' = Without(letterSessions, sessionId)
  /\ mon' = Without(mon, sessionId)
  /\ last' = Cleared(sessionId)
  /\ UNCHANGED <<sends, chanVars>>

Idle == [state |-> "idle"]

\* text?.trim() is falsy (server.js:175): the hand-off takes its text from the
\* session, not from the request
FromSession(text) == ~(text.type = "string" /\ Trim(text.chars) # <<>>)

\* text?.trim() || session?.letters?.join("")  (server.js:174-175); <<>> is falsy
AccumulatedText(sessionId, text) ==
  IF ~FromSession(text)
  THEN Trim(text.chars)
  ELSE IF sessionId \in DOMAIN letterSessions
       THEN letterSessions[sessionId].letters
       ELSE <<>>

\* POST /api/send-to-gemini up to the await of server.js:193
SendBegin(slot, sessionId, text) ==
  LET accumulatedText == AccumulatedText(sessionId, text)
  IN /\ host = "up"
     /\ sends[slot] = Idle
     /\ \A other \in 1..(slot - 1) : sends[other] # Idle
     /\ IF accumulatedText = <<>>
        THEN /\ last' = [op |-> "send", status |-> 400, sessionId |-> sessionId]
             /\ UNCHANGED sends
        ELSE /\ sends' = [sends EXCEPT ![slot] =
                            [state |-> "awaiting", sessionId |-> sessionId,
                             fromSession |-> FromSession(text),
                             sanitized |-> Trim(accumulatedText)]]
             /\ last' = [op |-> "generate", sessionId |-> sessionId]
     /\ UNCHANGED <<letterSessions, mon, chanVars>>

\* the provider answered: server.js:194-203
SendFinish(slot) ==
  /\ host = "up"
  /\ sends[slot] # Idle
  /\ LET sessionId == sends[slot].sessionId
     IN /\ letterSessions' = Without(letterSessions, sessionId)
        /\ mon' = Without(mon, sessionId)
        /\ last' = [op |-> "send", status |-> 200, sessionId |-> sessionId,
                    fromSession |-> sends[slot].fromSession,
                    originalText |-> sends[slot].sanitized,
                    deleted |-> sessionId \in DOMAIN letterSessions,
                    deletedLetters |-> IF sessionId \in DOMAIN letterSessions
                                       THEN letterSessions[sessionId].letters
                                       ELSE <<>>]
  /\ sends' = [sends EXCEPT ![slot] = Idle]
  /\ UNCHANGED chanVars

\* the provider call threw: server.js:204-210
SendFail_DeletesSession(slot) ==
  /\ host = "up"
  /\ sends[slot] # Idle
  /\ last' = [op |-> "send", status |-> 500, sessionId |-> sends[slot].sessionId]
  /\ sends' = [sends EXCEPT ![slot] = Idle]
  /\ letterSessions' = Without(letterSessions, sends[slot].sessionId)
  /\ mon' = Without(mon, sends[slot].sessionId)
  /\ UNCHANGED chanVars
SendFail(slot) ==
  /\ host = "up"
  /\ sends[slot] # Idle
  /\ last' = [op |-> "send", status |-> 500, sessionId |-> sends[slot].sessionId]
  /\ sends' = [sends EXCEPT ![slot] = Idle]
  /\ UNCHANGED <<letterSessions, mon, chanVars>>

----------------------------------------------------------------------------
(* letterClassifier.js (src/unnamed/part_000): the worker channel *)

\* the clock advances by one request timeout
MsPerTick == REQUEST_TIMEOUT_MS

\* `req_${Date.now()}_${++requestCounter}`  (part_000:318)
RequestId_NoCounter == [t |-> now, n |-> 0]
RequestId == [t |-> now, n |-> requestCounter + 1]

\* the delay given to setTimeout (part_000:331)
TimeoutDelay_None == REQUEST_TIMEOUT_MS - REQUEST_TIMEOUT_MS
TimeoutDelay == REQUEST_TIMEOUT_MS

NewProc == [state |-> "running",   \* "running", "exited" (exit not yet notified), "reaped"
            killed |-> FALSE,      \* ChildProcess.killed
            stdinEnded |-> FALSE,
            readerOpen |-> TRUE]   \* its readline interface has not been closed

\* the signal that cleanupWorker has sent to process p: kill() without an
\* argument sends SIGTERM (part_000:294-296), and nothing sends SIGKILL
Signal(p) == IF procs[p].killed THEN "SIGTERM" ELSE "none"

\* the state of a promise; by is the id of the line that settled it, at the time
\* at which the timer settled it
Pending == [state |-> "pending"]
Resolved(payload) ==
  [state |-> "resolved", letter |-> payload.letter, confidence |-> payload.confidence,
   by |-> payload.id]
RejectedBy(payload) ==
  [state |-> "rejected", error |-> payload.error.chars, by |-> payload.id]
Rejected(message) == [state |-> "rejected", error |-> message, by |-> JSUndefined]
TimedOut ==
  [state |-> "rejected", error |-> "Classifier request timed out", by |-> JSUndefined,
   at |-> now]

\* resolve or reject of the promise of call k: only the first call of either settles it
Settle(cs, k, outcome) ==
  [cs EXCEPT ![k].outcome = IF @.state = "pending" THEN outcome ELSE @,
             ![k].settles = @ + 1]

\* pendingRequests.delete(id), counted on the call whose entry goes
Removed(cs, id) ==
  IF id \in DOMAIN pendingRequests
  THEN [cs EXCEPT ![pendingRequests[id].call].removals = @ + 1]
  ELSE cs

\* procs after cleanupWorker (part_000:283-299)
CleanupProcs ==
  LET closed == IF stdoutInterface # 0
                THEN [procs EXCEPT ![stdoutInterface].readerOpen = FALSE]
                ELSE procs
  IN IF pythonProcess # 0
     THEN [closed EXCEPT ![pythonProcess].stdinEnded = TRUE,
                         ![pythonProcess].killed =
                            @ \/ closed[pythonProcess].state # "reaped"]
     ELSE closed

cleanupWorker_KeepsHandle ==
  /\ procs' = CleanupProcs
  /\ stdoutInterface' = 0
  /\ pythonProcess' = pythonProcess
cleanupWorker ==
  /\ procs' = CleanupProcs
  /\ stdoutInterface' = 0
  /\ pythonProcess' = 0

\* a call of stopClassifier, and whether the step before it was one too
Stopped == [op |-> "stop", again |-> last.op = "stop"]

\* export function stopClassifier (part_000:307-309), the shutdown hook of server.js:320-326
Stop ==
  /\ host = "up"
  /\ cleanupWorker
  /\ last' = Stopped
  /\ UNCHANGED <<storeVars, requestCounter, pendingRequests, timers, calls, host, now>>

\* POST /api/classify-letter with an image, up to the await of server.js:143,
\* with classifyLetterFromBase64 (part_000:311-343)
ClassifyLetter(sessionId, writeThrows) ==
  /\ host = "up"
  /\ requestCounter < MaxCalls
  /\ pythonProcess # 0 \/ Len(procs) < MaxProcs
  /\ now < MaxTicks * MsPerTick     \* the clock reaches the deadline of every request
  /\ LET started == pythonProcess = 0                    \* ensureWorker
         proc == IF started THEN Len(procs) + 1 ELSE pythonProcess
         ps == IF started THEN Append(procs, NewProc) ELSE procs
         requestId == RequestId
         k == Len(calls) + 1
         call == [id |-> requestId, sessionId |-> sessionId, proc |-> proc,
                  issuedAt |-> now, outcome |-> Pending,
                  settles |-> 0, removals |-> 0,
                  replaced |-> requestId \in DOMAIN pendingRequests]
     IN /\ writeThrows => ps[proc].state # "running"   \* only a dead worker's pipe fails
        /\ procs' = ps
        /\ pythonProcess' = proc
        /\ stdoutInterface' = IF started THEN proc ELSE stdoutInterface
        /\ IF ps[proc].killed
           THEN /\ last' = ErrorResponse("Classifier worker is not available")
                /\ UNCHANGED <<requestCounter, pendingRequests, timers, calls>>
           ELSE
             /\ requestCounter' = requestCounter + 1
             /\ IF writeThrows
                THEN \* set, then clearTimeout, delete and reject (part_000:337-341)
                     /\ pendingRequests' = Without(pendingRequests, requestId)
                     /\ timers' = timers
                     /\ calls' = Settle(Append(calls, [call EXCEPT !.removals = 1]),
                                        k, Rejected("write failed"))
                     /\ last' = ErrorResponse("write failed")
                ELSE /\ pendingRequests' =
                          (requestId :> [call |-> k, timeout |-> k]) @@ pendingRequests
                     /\ timers' = (k :> [id |-> requestId,
                                         deadline |-> now + TimeoutDelay]) @@ timers
                     /\ calls' = Append(calls, call)
                     /\ last' = Quiet
  /\ UNCHANGED <<storeVars, host, now>>

(* The worker's output.  A line is blank, text that JSON.parse rejects, or *)
(* the text of a JSON value.                                               *)

BlankLine == [kind |-> "blank"]
GarbageLine == [kind |-> "text"]
JsonLine(value) == [kind |-> "json", value |-> value]

JSObject(id, error, letter, confidence) ==
  [type |-> "object", id |-> id, error |-> error,
   letter |-> letter, confidence |-> confidence]

\* JSON.parse(line) (part_000:239-244)
JSONParse(line) ==
  IF line.kind = "json" THEN [ok |-> TRUE, payload |-> line.value] ELSE [ok |-> FALSE]

\* const { id } = payload (part_000:246): throws on null and undefined, is
\* undefined on a number, a boolean or a string
Destructurable(payload) == payload.type \notin {"null", "undefined"}
IdOf(payload) == IF payload.type = "object" THEN payload.id ELSE JSUndefined

\* the key the line handler looks up in pendingRequests (part_000:247-251)
ResponseKey_Oldest(payload) ==
  IF /\ payload.type = "object"
     /\ \E k \in 1..Len(calls) : calls[k].id \in DOMAIN pendingRequests
  THEN calls[CHOOSE k \in 1..Len(calls) :
               /\ calls[k].id \in DOMAIN pendingRequests
               /\ \A j \in 1..(k - 1) : calls[j].id \notin DOMAIN pendingRequests].id
  ELSE IdOf(payload)
ResponseKey(payload) == IdOf(payload)

\* payload.error is truthy (part_000:255)
HasError(payload) == payload.error.type = "string" /\ payload.error.chars # <<>>

UnknownId == [t |-> 0, n |-> 0]
WorkerAnswers ==
  {[error |-> JSUndefined, letter |-> JSStr(<<"A">>), confidence |-> JSNum(90)],
   [error |-> JSUndefined, letter |-> JSStr(<<"b">>), confidence |-> JSNum(60)],
   [error |-> JSStr(<<"E">>), letter |-> JSUndefined, confidence |-> JSUndefined]}

\* the lines a worker may write: anything, the ids taken from the requests written so far
WorkerLines ==
  {BlankLine, GarbageLine, JsonLine(JSNull), JsonLine(JSNum(42)),
   JsonLine(JSObject(JSUndefined, JSUndefined, JSStr(<<"A">>), JSNum(90))),
   JsonLine(JSObject(UnknownId, JSUndefined, JSStr(<<"A">>), JSNum(90)))}
    \cup {JsonLine(JSObject(calls[k].id, a.error, a.letter, a.confidence)) :
            k \in 1..Len(calls), a \in WorkerAnswers}

\* the worker process terminates, of itself or on the signal of kill()
WorkerExit(p) ==
  /\ procs[p].state = "running"
  /\ procs' = [procs EXCEPT ![p].state = "exited"]
  /\ last' = Quiet
  /\ UNCHANGED <<storeVars, pythonProcess, stdoutInterface, requestCounter,
                 pendingRequests, timers, calls, host, now>>

\* stdoutInterface.on("line") (part_000:233-263) for a line the worker has written,
\* and the continuation of the request handler that awaits the settled promise
\* (server.js:144-168).  Output written before the process died is still read
\* until the interface is closed.
OnLine(p, line) ==
  /\ host = "up"
  /\ procs[p].readerOpen
  /\ LET parsed == JSONParse(line)
         skip(why) ==
           /\ last' = IF why = "late" THEN Discarded ELSE Quiet
           /\ UNCHANGED <<storeVars, chanVars>>
     IN IF line.kind = "blank" THEN skip("blank")
        ELSE IF ~parsed.ok THEN skip("unparsed")
        ELSE IF ~Destructurable(parsed.payload)
          THEN \* TypeError out of the listener: uncaught exception, the process
               \* exits and its exit hook runs stopClassifier (server.js:326)
               /\ host' = "crashed"
               /\ procs' = CleanupProcs
               /\ stdoutInterface' = 0
               /\ pythonProcess' = 0
               /\ last' = Quiet
               /\ UNCHANGED <<storeVars, requestCounter, pendingRequests, timers,
                              calls, now>>
        ELSE IF ResponseKey(parsed.payload) \notin DOMAIN pendingRequests
          THEN IF \E k \in 1..Len(calls) : calls[k].id = IdOf(parsed.payload)
               THEN skip("late")
               ELSE skip("unmatched")
        ELSE LET id == ResponseKey(parsed.payload)
                 entry == pendingRequests[id]
                 k == entry.call
                 payload == parsed.payload
             IN /\ timers' = Without(timers, entry.timeout)
                /\ pendingRequests' = Without(pendingRequests, id)
                /\ UNCHANGED <<pythonProcess, stdoutInterface, requestCounter, procs,
                               host, now, sends>>
                /\ IF HasError(payload)
                   THEN /\ calls' = Settle(Removed(calls, id), k, RejectedBy(payload))
                        /\ last' = ErrorResponse(payload.error.chars)
                        /\ UNCHANGED <<letterSessions, mon>>
                   ELSE /\ calls' = Settle(Removed(calls, id), k, Resolved(payload))
                        /\ IF calls[k].outcome.state = "pending"
                           THEN /\ Accumulate(calls[k].sessionId, payload.letter,
                                              payload.confidence)
                                /\ last' = ClassifyResponse(calls[k].sessionId,
                                                            payload.letter,
                                                            payload.confidence)
                           ELSE /\ last' = Quiet
                                /\ UNCHANGED <<letterSessions, mon>>

\* the setTimeout callback of call k (part_000:326-331)
OnTimeout(k) ==
  /\ host = "up"
  /\ k \in DOMAIN timers
  /\ now >= timers[k].deadline
  /\ timers' = Without(timers, k)
  /\ LET id == timers[k].id
     IN IF id \in DOMAIN pendingRequests
        THEN /\ pendingRequests' = Without(pendingRequests, id)
             /\ calls' = Settle(Removed(calls, id), k, TimedOut)
             /\ last' = ErrorResponse("Classifier request timed out")
        ELSE /\ last' = Quiet
             /\ UNCHANGED <<pendingRequests, calls>>
  /\ UNCHANGED <<storeVars, pythonProcess, stdoutInterface, requestCounter, procs,
                 host, now>>

\* the ids whose entries the exit handler rejects (part_000:275-278)
SweptIds_None == {}
SweptIds == DOMAIN pendingRequests

RECURSIVE RejectAll(_, _, _)
RejectAll(cs, ids, message) ==
  IF ids = {} THEN cs
  ELSE LET id == CHOOSE x \in ids : TRUE
       IN RejectAll(Settle(cs, pendingRequests[id].call, Rejected(message)),
                    ids \ {id}, message)

RECURSIVE RemoveAll(_, _)
RemoveAll(cs, ids) ==
  IF ids = {} THEN cs
  ELSE LET id == CHOOSE x \in ids : TRUE
       IN RemoveAll(Removed(cs, id), ids \ {id})

\* pythonProcess.on("exit") (part_000:270-280)
OnExit(p) ==
  /\ host = "up"
  /\ procs[p].state = "exited"
  /\ procs' = [CleanupProcs EXCEPT ![p].state = "reaped"]
  /\ stdoutInterface' = 0
  /\ pythonProcess' = 0
  /\ timers' = [h \in DOMAIN timers \ {pendingRequests[id].timeout : id \in SweptIds}
                  |-> timers[h]]
  /\ calls' = RemoveAll(RejectAll(calls, SweptIds,
                                  "Classifier worker exited unexpectedly"),
                        DOMAIN pendingRequests)
  /\ pendingRequests' = <<>>
  /\ last' = IF SweptIds = {} THEN Quiet
             ELSE ErrorResponse("Classifier worker exited unexpectedly")
  /\ UNCHANGED <<storeVars, requestCounter, host, now>>

\* time passes; a timer that is due runs before the clock moves on
Tick ==
  /\ host = "up"
  /\ now < MaxTicks * MsPerTick
  /\ \A k \in DOMAIN timers : timers[k].deadline > now
  /\ now' = now + MsPerTick
  /\ last' = Quiet
  /\ UNCHANGED <<storeVars, pythonProcess, stdoutInterface, requestCounter,
                 pendingRequests, timers, procs, calls, host>>

----------------------------------------------------------------------------
Init ==
  /\ letterSessions = <<>>
  /\ sends = [slot \in 1..MaxSends |-> Idle]
  /\ mon = <<>>
  /\ pythonProcess = 0
  /\ stdoutInterface = 0
  /\ requestCounter = 0
  /\ pendingRequests = <<>>
  /\ timers = <<>>
  /\ procs = <<>>
  /\ calls = <<>>
  /\ host = "up"
  /\ now = 0
  /\ last = [op |-> "listen"]

NextFilter ==
  \/ \E s \in SessionIds, l \in FrameLetters, c \in FrameConfidences : Frame(s, l, c)
  \/ \E s \in SessionIds : ClearSession(s)
  \/ \E slot \in 1..MaxSends, s \in SessionIds, t \in SendTexts : SendBegin(slot, s, t)
  \/ \E slot \in 1..MaxSends : SendFinish(slot)
  \/ \E slot \in 1..MaxSends : SendFail(slot)

Next ==
  \/ \E s \in SessionIds, w \in BOOLEAN : ClassifyLetter(s, w)
  \/ \E p \in 1..Len(procs) : WorkerExit(p)
  \/ \E p \in 1..Len(procs), line \in WorkerLines : OnLine(p, line)
  \/ \E k \in DOMAIN timers : OnTimeout(k)
  \/ \E p \in 1..Len(procs) : OnExit(p)
  \/ Stop
  \/ Tick

\* the classification requests, through the worker channel to the session store

Spec == Init /\ [][Next]_vars

\* the session store driven by classifications, the worker channel left aside
SpecFilter == Init /\ [][NextFilter]_vars

\* a worker process ends when it is sent SIGKILL; a process that is sent SIGTERM
\* or whose input is closed may go on running
ForcedExit == \E p \in 1..Len(procs) : Signal(p) = "SIGKILL" /\ WorkerExit(p)

\* the worker channel with the scheduling that Node guarantees: the clock
\* advances and a timer that is due runs
SpecLive ==
  /\ Spec
  /\ WF_vars(Tick)
  /\ WF_vars(\E k \in 1..MaxCalls : OnTimeout(k))
  /\ WF_vars(ForcedExit)

----------------------------------------------------------------------------
(* The stability filter and the session store, under SpecFilter *)

IsClassified == last.op = "classify" /\ last.status = 200

\* C1: a new session fed the same valid label with a confidence at or above
\* the minimum holds no letter before the STABILITY_COUNT-th frame and that one
\* label from it on; the STABILITY_COUNT-th frame is the one reported as
\* accepted, no earlier frame and not the frame after it.
C1_OneCommit ==
  \A s \in DOMAIN letterSessions :
    LET m == mon[s]
    IN m.oneSymbol /\ m.fed >= 1 =>
         /\ letterSessions[s].letters =
              IF m.fed < STABILITY_COUNT THEN <<>> ELSE <<m.runLetter>>
         /\ IsClassified /\ last.sessionId = s =>
              /\ m.fed < STABILITY_COUNT => ~last.accepted
              /\ m.fed = STABILITY_COUNT =>
                   last.accepted /\ last.acceptedLetter = m.runLetter
              /\ m.fed = STABILITY_COUNT + 1 => ~last.accepted

C1_Witness ==
  \E s \in DOMAIN letterSessions :
    /\ mon[s].oneSymbol
    /\ mon[s].fed = STABILITY_COUNT + 1
    /\ letterSessions[s].letters = <<mon[s].runLetter>>
    /\ IsClassified /\ ~last.accepted

IsPrefix(a, b) == Len(a) <= Len(b) /\ \A i \in 1..Len(a) : a[i] = b[i]

\* C5 as claimed: between the read of a hand-off and its deletion no letter
\* is committed to the session, and the session that the hand-off deletes
\* holds no letter that was not handed off.
C5_HandOffAtomic ==
  /\ [][\A slot \in 1..MaxSends, s \in DOMAIN letterSessions :
          (/\ sends[slot] # Idle
           /\ sends'[slot] = sends[slot]
           /\ sends[slot].sessionId = s
           /\ sends[slot].fromSession
           /\ s \in DOMAIN letterSessions')
          => Len(letterSessions'[s].letters) <= Len(letterSessions[s].letters)]_vars
  /\ []((last.op = "send" /\ last.status = 200 /\ last.fromSession)
          => IsPrefix(last.deletedLetters, last.originalText))

\* the last STABILITY_COUNT - 1 entries of recent are all sym
EndsInRunOf(recent, sym) ==
  /\ Len(recent) >= STABILITY_COUNT - 1
  /\ \A i \in (Len(recent) - STABILITY_COUNT + 2)..Len(recent) : recent[i] = sym

\* C6: a frame that passes both gates, that makes the window full and
\* uniform and whose label is the last committed letter is answered as
\* accepted with that letter, and the letters stay as they were.
C6_RepeatedConfirmation ==
  [][\A s \in DOMAIN letterSessions :
       (/\ IsClassified'
        /\ last'.sessionId = s
        /\ last'.reason \notin {"low_confidence", "invalid_letter"}
        /\ EndsInRunOf(letterSessions[s].recentPredictions, normalizeLetter(last'.letter))
        /\ LastLetter(letterSessions[s].letters) = normalizeLetter(last'.letter))
       => /\ last'.accepted
          /\ last'.acceptedLetter = normalizeLetter(last'.letter)
          /\ s \in DOMAIN letterSessions'
          /\ letterSessions'[s].letters = letterSessions[s].letters]_vars

C6_Witness ==
  /\ IsClassified
  /\ last.accepted
  /\ last.sessionId \in DOMAIN letterSessions
  /\ LET session == letterSessions[last.sessionId]
     IN /\ session.letters = <<last.acceptedLetter>>
        /\ session.recentPredictions =
             [i \in 1..STABILITY_COUNT |-> last.acceptedLetter]

\* C7: while every frame fed to a session has passed both gates and no symbol
\* has come STABILITY_COUNT times in a row, the session holds no letter.
C7_NoRunNoCommit ==
  \A s \in DOMAIN letterSessions :
    mon[s].passAll /\ ~mon[s].hit => letterSessions[s].letters = <<>>

C7_Witness ==
  \E s \in DOMAIN letterSessions :
    /\ mon[s].passAll
    /\ ~mon[s].hit
    /\ mon[s].fed >= STABILITY_COUNT + 2
    /\ letterSessions[s].letters = <<>>

\* C8: a frame whose confidence is a number below MIN_CONFIDENCE is answered
\* as rejected for low confidence, whatever its label.
C8_LowConfidenceFirst ==
  (IsClassified /\ last.confidence.type = "number"
     /\ last.confidence.n < MIN_CONFIDENCE)
    => ~last.accepted /\ last.reason = "low_confidence"

C8_Witness ==
  /\ IsClassified
  /\ last.confidence.type = "number"
  /\ last.confidence.n < MIN_CONFIDENCE
  /\ normalizeLetter(last.letter) = NoLetter
  /\ last.reason = "low_confidence"
  /\ last.letters # <<>>

\* C15: clear-session leaves no session under the id; the next frame for the
\* id is answered from an empty session (no letters, a first qualifying frame
\* at stability progress 1, a rejected one with an empty window), and a
\* hand-off for the id finds no accumulated text.
C15_ClearedIsFresh ==
  [][\A s \in SessionIds :
       /\ (last'.op = "clear" /\ last'.sessionId = s) => s \notin DOMAIN letterSessions'
       /\ (s \notin DOMAIN letterSessions /\ IsClassified' /\ last'.sessionId = s)
            => /\ last'.letters = <<>>
               /\ ~last'.accepted
               /\ letterSessions'[s].letters = <<>>
               /\ IF last'.reason \in {"low_confidence", "invalid_letter"}
                  THEN letterSessions'[s].recentPredictions = <<>>
                  ELSE /\ last'.reason = "insufficient_stability"
                       /\ last'.stabilityProgress = 1
                       /\ letterSessions'[s].recentPredictions =
                            <<normalizeLetter(last'.letter)>>
               /\ Qualifies(last'.letter, last'.confidence)
                    => last'.stabilityProgress = 1
       /\ \A slot \in 1..MaxSends :
            (/\ s \notin DOMAIN letterSessions
             /\ sends[slot] = Idle /\ sends'[slot] # Idle
             /\ sends'[slot].sessionId = s)
            => ~sends'[slot].fromSession]_vars

\* a session that existed has just been cleared, with no hand-off under way
C15_Witness ==
  /\ last.op = "clear"
  /\ last.existed
  /\ last.sessionId \notin DOMAIN letterSessions
  /\ \A slot \in 1..MaxSends : sends[slot] = Idle

RejectionReasons ==
  {"low_confidence", "invalid_letter", "insufficient_stability", "unstable"}

\* the latest frame passed both gates and left its session with a full uniform
\* window of its symbol, which is also the last committed letter: the frame was
\* a repeated confirmation (a frame that commits leaves the window empty)
IsDuplicateConfirmation ==
  /\ IsClassified
  /\ last.reason \notin {"low_confidence", "invalid_letter"}
  /\ last.sessionId \in DOMAIN letterSessions
  /\ LET session == letterSessions[last.sessionId]
         sym == normalizeLetter(last.letter)
     IN /\ session.recentPredictions = [i \in 1..STABILITY_COUNT |-> sym]
        /\ LastLetter(session.letters) = sym

\* C16 as claimed: a repeated confirmation is answered as rejected, with a
\* reason code.
C16_DuplicateRejected ==
  IsDuplicateConfirmation => ~last.accepted /\ last.reason # "none"

\* C16 as amended: a repeated confirmation is answered as accepted, with the
\* symbol and without a reason code; every answer that is not accepted carries
\* one of the four reason codes and no symbol, every accepted one a symbol and
\* no reason code.
C16_DuplicateAccepted ==
  /\ IsDuplicateConfirmation
       => /\ last.accepted
          /\ last.acceptedLetter = normalizeLetter(last.letter)
          /\ last.reason = "none"
  /\ IsClassified
       => IF last.accepted
          THEN last.reason = "none" /\ last.acceptedLetter # NoLetter
          ELSE last.reason \in RejectionReasons /\ last.acceptedLetter = NoLetter

\* a session fed one symbol 2 * STABILITY_COUNT times: the last frame is a
\* repeated confirmation
C16_Witness ==
  /\ IsDuplicateConfirmation
  /\ mon[last.sessionId].oneSymbol
  /\ mon[last.sessionId].fed = 2 * STABILITY_COUNT
  /\ last.reason = "none"

\* C17: while a session stays in the store, a step leaves its letters as they
\* were or appends one symbol to them.
C17_LettersAppendOnly ==
  [][\A s \in DOMAIN letterSessions \cap DOMAIN letterSessions' :
       LET old == letterSessions[s].letters
           new == letterSessions'[s].letters
       IN IsPrefix(old, new) /\ Len(new) <= Len(old) + 1]_vars

\* a second letter has just been appended to a session
C17_Witness ==
  /\ IsClassified
  /\ last.accepted
  /\ last.sessionId \in DOMAIN letterSessions
  /\ LET session == letterSessions[last.sessionId]
     IN /\ Len(session.letters) = 2
        /\ session.letters[2] = last.acceptedLetter
        /\ session.recentPredictions = <<>>

\* C18: after every step the window of every session holds at most
\* STABILITY_COUNT entries, and it is empty after a step that has appended a
\* letter to the session.  (No session exists before the first step.)
C18_WindowBounded ==
  [][\A s \in DOMAIN letterSessions' :
       LET before == IF s \in DOMAIN letterSessions
                     THEN Len(letterSessions[s].letters) ELSE 0
       IN /\ Len(letterSessions'[s].recentPredictions) <= STABILITY_COUNT
          /\ Len(letterSessions'[s].letters) > before
               => letterSessions'[s].recentPredictions = <<>>]_vars

\* five frames that all passed the gates, the window full and shifted before
\* the fifth, which commits the first letter and empties the window
C18_Witness ==
  /\ IsClassified
  /\ last.accepted
  /\ last.sessionId \in DOMAIN letterSessions
  /\ mon[last.sessionId].passAll
  /\ mon[last.sessionId].fed = STABILITY_COUNT + 2
  /\ letterSessions[last.sessionId].letters = <<last.acceptedLetter>>
  /\ letterSessions[last.sessionId].recentPredictions = <<>>

\* C20: a frame answered low_confidence or invalid_letter leaves the letters
\* and the window of its session as they were (empty, if the frame created it).
C20_GateRejectionNoEffect ==
  [][\A s \in SessionIds :
       (/\ IsClassified'
        /\ last'.sessionId = s
        /\ last'.reason \in {"low_confidence", "invalid_letter"})
       => /\ s \in DOMAIN letterSessions'
          /\ ~last'.accepted
          /\ letterSessions'[s].letters =
               IF s \in DOMAIN letterSessions THEN letterSessions[s].letters ELSE <<>>
          /\ letterSessions'[s].recentPredictions =
               IF s \in DOMAIN letterSessions
               THEN letterSessions[s].recentPredictions ELSE <<>>
          /\ last'.letters = letterSessions'[s].letters]_vars

\* a frame has just been rejected by a gate in a session that holds a letter
\* and two entries in its window
C20_Witness ==
  /\ IsClassified
  /\ last.reason \in {"low_confidence", "invalid_letter"}
  /\ last.sessionId \in DOMAIN letterSessions
  /\ letterSessions[last.sessionId].letters # <<>>
  /\ Len(letterSessions[last.sessionId].recentPredictions) = STABILITY_COUNT - 1

\* the letters of session s before a step, none if the step creates it
LettersBefore(s) ==
  IF s \in DOMAIN letterSessions THEN letterSessions[s].letters ELSE <<>>

\* the step appends a letter to session s
Appends(s) ==
  /\ s \in DOMAIN letterSessions'
  /\ Len(letterSessions'[s].letters) > Len(LettersBefore(s))

\* the letter that such a step appends
Appended(s) == letterSessions'[s].letters[Len(letterSessions'[s].letters)]

\* C21 as claimed: a step appends a symbol only if the STABILITY_COUNT latest
\* frames fed to the session, the rejected ones counted, all carried it.
C21_RawRunRequired ==
  [][\A s \in SessionIds :
       Appends(s) => /\ mon'[s].rawLetter = Appended(s)
                     /\ mon'[s].rawRun >= STABILITY_COUNT]_vars

\* C21 as amended: a step appends a symbol only if the STABILITY_COUNT latest
\* frames that no gate rejected all carried it; a frame that a gate rejects
\* neither lengthens nor breaks the run.
C21_PassedRunRequired ==
  [][\A s \in SessionIds :
       /\ Appends(s) => /\ mon'[s].passLetter = Appended(s)
                        /\ mon'[s].passRun >= STABILITY_COUNT
       /\ (/\ IsClassified' /\ last'.sessionId = s
           /\ last'.reason \in {"low_confidence", "invalid_letter"}
           /\ s \in DOMAIN mon)
            => /\ mon'[s].passRun = mon[s].passRun
               /\ mon'[s].passLetter = mon[s].passLetter
               /\ ~Appends(s)]_vars

\* a first letter has just been committed by the frame after a rejected frame
\* that had interrupted its run
C21_Witness ==
  /\ IsClassified
  /\ last.accepted
  /\ last.sessionId \in DOMAIN letterSessions
  /\ letterSessions[last.sessionId].letters = <<last.acceptedLetter>>
  /\ mon[last.sessionId].fed = STABILITY_COUNT + 1
  /\ mon[last.sessionId].rawRun = 1
  /\ mon[last.sessionId].passRun = STABILITY_COUNT

IsHandOffStep == last'.op \in {"send", "generate"}

\* C23: a step of the hand-off removes the session only when it answers 200,
\* and then the request had been waiting for the provider; a request that
\* ends because the provider failed answers 500, one that finds no text
\* answers 400 without calling the provider, and both leave every session,
\* letters and window, as it was; the provider is called for a session's own
\* text only when the session holds letters.
C23_DeletedOnlyOnSuccess ==
  [][IsHandOffStep =>
       /\ last'.op = "generate" =>
            /\ letterSessions' = letterSessions
            /\ \E slot \in 1..MaxSends :
                 /\ sends[slot] = Idle
                 /\ sends'[slot] # Idle
                 /\ sends'[slot].sanitized # <<>>
                 /\ sends'[slot].fromSession =>
                      /\ last'.sessionId \in DOMAIN letterSessions
                      /\ letterSessions[last'.sessionId].letters # <<>>
       /\ (last'.op = "send" /\ last'.status = 400) =>
            /\ letterSessions' = letterSessions
            /\ sends' = sends
       /\ (last'.op = "send" /\ last'.status # 400) =>
            \E slot \in 1..MaxSends :
              /\ sends[slot] # Idle
              /\ sends[slot].sessionId = last'.sessionId
              /\ sends'[slot] = Idle
              /\ \/ /\ last'.status = 200
                    /\ letterSessions' = Without(letterSessions, last'.sessionId)
                 \/ /\ last'.status = 500
                    /\ letterSessions' = letterSessions]_vars

\* the provider has just failed for a session that holds a committed letter
\* and a window under way: the session is still in the store
C23_Witness ==
  /\ last.op = "send"
  /\ last.status = 500
  /\ last.sessionId \in DOMAIN letterSessions
  /\ letterSessions[last.sessionId].letters # <<>>
  /\ letterSessions[last.sessionId].recentPredictions # <<>>

----------------------------------------------------------------------------
(* The worker channel, under Spec *)

Calls == 1..Len(calls)
IsPending(k) == calls[k].outcome.state = "pending"
IsResolved(k) == calls[k].outcome.state = "resolved"
HasFailed(k, message) ==
  calls[k].outcome.state = "rejected" /\ calls[k].outcome.error = message
ExitMessage == "Classifier worker exited unexpectedly"
TimeoutMessage == "Classifier request timed out"

\* C2: a call that is resolved was resolved by a line that carried its own id.
C2_OwnResponse ==
  \A k \in Calls : IsResolved(k) => calls[k].outcome.by = calls[k].id

\* two calls submitted to one worker, the second answered first, then the first
C2_Witness ==
  /\ Len(calls) = 2
  /\ calls[1].proc = calls[2].proc
  /\ IsResolved(1) /\ IsResolved(2)
  /\ calls[1].outcome.letter # calls[2].outcome.letter
  /\ IsClassified
  /\ last.letter = calls[1].outcome.letter

\* C3: the step that handles a worker's exit rejects every pending request
\* with the worker-exited error, empties the map and clears the handle; a
\* call made while the handle is clear starts a new process and is pending on it.
C3_ExitSweep ==
  [][/\ \A p \in 1..Len(procs) :
          (procs[p].state = "exited" /\ procs'[p].state = "reaped")
          => /\ pendingRequests' = <<>>
             /\ pythonProcess' = 0
             /\ \A id \in DOMAIN pendingRequests :
                  LET k == pendingRequests[id].call
                  IN /\ calls'[k].outcome.state = "rejected"
                     /\ calls'[k].outcome.error = ExitMessage
     /\ (pythonProcess = 0 /\ Len(calls') > Len(calls))
          => /\ Len(procs') = Len(procs) + 1
             /\ pythonProcess' = Len(procs')
             /\ procs'[pythonProcess'].state = "running"
             /\ calls'[Len(calls')].outcome.state = "pending"
             /\ calls'[Len(calls')].id \in DOMAIN pendingRequests']_vars

\* a pending request was swept by its worker's exit and a call made afterwards
\* was resolved by a new process
C3_Witness ==
  /\ Len(calls) = 2
  /\ HasFailed(1, ExitMessage)
  /\ procs[calls[1].proc].state = "reaped"
  /\ calls[2].proc # calls[1].proc
  /\ IsResolved(2)
  /\ pendingRequests = <<>>

\* the line is the text of an object whose id is the key of a pending request
AnswersPending(line) ==
  /\ line.kind = "json"
  /\ line.value.type = "object"
  /\ line.value.id \in DOMAIN pendingRequests

\* the lines that answer a request that has timed out
LateLines ==
  {JsonLine(JSObject(calls[k].id, a.error, a.letter, a.confidence)) :
     k \in {j \in Calls : HasFailed(j, TimeoutMessage)}, a \in WorkerAnswers}

\* C4: after every step, a request rejected for its timeout was rejected
\* exactly REQUEST_TIMEOUT_MS after it was made and is out of the map, and no
\* pending request has outlived its deadline; a settled request keeps its
\* outcome; and a line that carries the id of a timed-out request changes no
\* request, no timer and no session.  (No request exists before the first step.)
C4_Timeout ==
  [][/\ \A k \in 1..Len(calls') :
          /\ (calls'[k].outcome.state = "rejected"
                /\ calls'[k].outcome.error = TimeoutMessage)
               => /\ calls'[k].outcome.at = calls'[k].issuedAt + REQUEST_TIMEOUT_MS
                  /\ calls'[k].id \notin DOMAIN pendingRequests'
          /\ calls'[k].outcome.state = "pending"
               => now' <= calls'[k].issuedAt + REQUEST_TIMEOUT_MS
     /\ \A k \in Calls : ~IsPending(k) => calls'[k].outcome = calls[k].outcome
     /\ \A line \in LateLines, p \in 1..Len(procs) :
          OnLine(p, line)
          => UNCHANGED <<pendingRequests, timers, calls, letterSessions, host>>]_vars

\* the first request has timed out, a line with its id has then been dropped,
\* and the second request is still pending
C4_Witness ==
  /\ Len(calls) = 2
  /\ HasFailed(1, TimeoutMessage)
  /\ last = Discarded
  /\ IsPending(2)
  /\ calls[2].id \in DOMAIN pendingRequests
  /\ 2 \in DOMAIN timers

\* C9 as claimed: a line that is not a well-formed response to a pending
\* request changes no pending request and no outcome, and raises no fault.
C9_StrayLineDiscarded ==
  [][\A p \in 1..Len(procs), line \in WorkerLines :
       (OnLine(p, line) /\ ~AnswersPending(line))
       => /\ UNCHANGED <<pendingRequests, calls>>
          /\ host' = "up"]_vars

\* C10: every request is settled at most once and removed at most once, both
\* or neither; an unsettled request is in the map under its own id, a settled
\* one is not; no request was registered over a live one, and no two
\* requests have the same id.
C10_SettledOnce ==
  /\ \A k \in Calls :
       /\ calls[k].settles <= 1
       /\ calls[k].removals <= 1
       /\ ~calls[k].replaced
       /\ IsPending(k) =>
            /\ calls[k].settles = 0 /\ calls[k].removals = 0
            /\ calls[k].id \in DOMAIN pendingRequests
            /\ pendingRequests[calls[k].id].call = k
       /\ ~IsPending(k) =>
            /\ calls[k].settles = 1 /\ calls[k].removals = 1
            /\ ~(calls[k].id \in DOMAIN pendingRequests
                   /\ pendingRequests[calls[k].id].call = k)
       /\ \A j \in Calls : j # k => calls[j].id # calls[k].id
  /\ \A id \in DOMAIN pendingRequests : IsPending(pendingRequests[id].call)

\* one request was settled by its timer, another by the exit sweep
C10_Witness ==
  /\ Len(calls) = 2
  /\ HasFailed(1, TimeoutMessage)
  /\ HasFailed(2, ExitMessage)
  /\ calls[1].proc = calls[2].proc

\* C13: stopClassifier leaves the handle and the reader cleared and every
\* reader closed; called when there is no worker, or right after another call
\* of it, it changes nothing of the channel and raises no fault.
C13_StopIdempotent ==
  [][Stop =>
       /\ pythonProcess' = 0
       /\ stdoutInterface' = 0
       /\ \A p \in 1..Len(procs') : ~procs'[p].readerOpen
       /\ host' = "up"
       /\ (pythonProcess = 0 /\ stdoutInterface = 0) => UNCHANGED chanVars
       /\ last.op = "stop" => UNCHANGED chanVars]_vars

\* stopClassifier was called twice in a row after a worker had been started
C13_Witness ==
  /\ last.op = "stop"
  /\ last.again
  /\ procs # <<>>
  /\ procs[Len(procs)].killed
  /\ pythonProcess = 0

\* the worker processes that have been spawned and have not terminated
Alive == {p \in 1..Len(procs) : procs[p].state = "running"}

\* C14 as claimed: at most one worker process is alive.
C14_OneLiveProcess == Cardinality(Alive) <= 1

\* C19 as claimed: the step that handles the exit of a process leaves every
\* other process as it was (not killed, its reader open, the handle on it) and
\* settles no request that was submitted to another process.
C19_StaleExitHarmless ==
  [][\A p \in 1..Len(procs) :
       (procs[p].state = "exited" /\ procs'[p].state = "reaped")
       => /\ \A q \in 1..Len(procs) :
               q # p => /\ procs'[q].killed = procs[q].killed
                        /\ procs'[q].readerOpen = procs[q].readerOpen
          /\ pythonProcess # p => pythonProcess' = pythonProcess
          /\ \A k \in Calls :
               calls[k].proc # p => calls'[k].outcome = calls[k].outcome]_vars

----------------------------------------------------------------------------
(* Liveness of the worker channel, under SpecLive *)

\* C11 as claimed: every request that was registered as pending is eventually
\* resolved or rejected.
C11_EventuallySettled ==
  \A k \in 1..MaxCalls :
    [](k \in Calls /\ IsPending(k) => <>(k \in Calls /\ ~IsPending(k)))

\* C12 as claimed: a worker process that stop() has torn down is eventually no
\* longer running, whether or not it exits of itself (while the server stays up).
C12_StopTerminates ==
  \A p \in 1..MaxProcs :
    []((p <= Len(procs) /\ procs[p].killed /\ procs[p].state = "running")
         => <>((p <= Len(procs) /\ procs[p].state # "running") \/ host # "up"))

====
